---- MODULE Spec2Model ----
(***************************************************************************)
(* SKRYB: a storybook generator.  Two front ends (the CLI of               *)
(* create_book.py and the WebSocket handler of api.py) drive three API     *)
(* wrappers of openai_api.py.  The wrappers are operators computed as the  *)
(* code computes them; the front ends are state machines whose steps call  *)
(* the wrappers with outcomes of the remote APIs, of the file system and   *)
(* of the user drawn nondeterministically.                                 *)
(*                                                                         *)
(* Python values: None is the string "None"; bytes, error messages and     *)
(* prompts are strings; a dict of characters is "{}" when empty.           *)
(***************************************************************************)
EXTENDS Integers, Sequences, FiniteSets, TLC

\* ------------------------------------------------------------------ bounds
MaxPages == 3
MaxRetries == 1
MaxApiCalls == 2
\* the pages of a request in the runs of the handler checked to their end
MaxWsPages == 2

\* ------------------------------------------------------------ Python values
NONE == "None"

\* Python truthiness of the values the front ends test with `if x:`.
Truthy(x) == x \notin {NONE, "", "{}"}

TextKeys == {"page_number", "scene_description", "page_text", "script_text"}

\* The content of a chat reply.  kind: "object" (a JSON object), "array"
\* (valid JSON, not an object), "invalid" (not JSON), "none" (content is
\* None).  keys/pn/pnType/text describe an object: its keys, the value of
\* page_number and its JSON type, and the value of its text key; scene is
\* the JSON type of the value of scene_description, a string unless a reply
\* is built otherwise.
Content(kind, keys, pn, pnType, text) ==
    [kind |-> kind, keys |-> keys, pn |-> pn, pnType |-> pnType, text |-> text,
     scene |-> "str"]

NoContent == Content("None", {}, 0, "int", "")

IsNone(d) == d.kind = "None"

Msg(role, content, pg, reply) ==
    [role |-> role, content |-> content, page |-> pg, reply |-> reply]

\* ---------------------------------------------------------- openai_api.py
KeyValues == {"missing", "YOUR_API_KEY_HERE", "sk-valid"}

\* A faulty key check: the placeholder key passes.
check_api_key_AcceptsPlaceholder(key) == key # "missing"

\* Lines 38-53: the key is there and is not the placeholder.
check_api_key(key) == key \notin {"missing", "YOUR_API_KEY_HERE"}

\* PROMPTS: None when prompts.json could not be loaded, else which keys the
\* file holds and whether the page-1 user template formats.
Prompts(loaded, stage1, fmt, cover, styleT, editT) ==
    [loaded |-> loaded, stage1 |-> stage1, fmt |-> fmt, cover |-> cover,
     styleT |-> styleT, editT |-> editT]

FullPrompts == Prompts(TRUE, TRUE, TRUE, TRUE, TRUE, TRUE)

NoPrompts == Prompts(FALSE, FALSE, FALSE, FALSE, FALSE, FALSE)

Stage1Keys(style_type) ==
    IF style_type = "narrative"
    THEN [prompt_key |-> "stage1_text_generation_narrative_page",
          expected_text_key |-> "script_text"]
    ELSE [prompt_key |-> "stage1_text_generation_single_page",
          expected_text_key |-> "page_text"]

\* A faulty validation: the page number of the reply is not compared.
ValidPage_AnyNumber(page_data, page_number, expected_text_key) ==
    /\ page_data.kind = "object"
    /\ "page_number" \in page_data.keys
    /\ "scene_description" \in page_data.keys
    /\ expected_text_key \in page_data.keys

\* The validation of the parsed reply (the if of lines 145-149).
ValidPage(page_data, page_number, expected_text_key) ==
    /\ page_data.kind = "object"
    /\ "page_number" \in page_data.keys
    /\ "scene_description" \in page_data.keys
    /\ expected_text_key \in page_data.keys
    /\ page_data.pnType = "int"
    /\ page_data.pn = page_number

S1Ret(d, h, e, s) == [data |-> d, history |-> h, error |-> e, sent |-> s]

\* env: key (API_KEY), prompts (PROMPTS), api ("ok" or "exception": the
\* request raised), reply (the content of the reply).  sent is the message
\* list handed to client.chat.completions.create, <<>> when no request is made.
generate_single_page_structure(page_number, message_history, style_type, env) ==
    LET sel == Stage1Keys(style_type)
        system_msg == Msg("system", sel.prompt_key, 0, NoContent)
        user_prompt == Msg("user", "initial", page_number, NoContent)
        next_page_request == Msg("user", "next", page_number, NoContent)
        asked == IF page_number = 1
                 THEN <<system_msg, user_prompt>>
                 ELSE Append(message_history, next_page_request)
        answered == Append(asked, Msg("assistant", "reply", 0, env.reply))
    IN  IF ~check_api_key(env.key)
        THEN S1Ret(NoContent, message_history,
                   "API key not configured or client not initialized.", <<>>)
        ELSE IF ~env.prompts.loaded
        THEN S1Ret(NoContent, message_history, "Prompts could not be loaded.", <<>>)
        ELSE IF ~env.prompts.stage1
        THEN S1Ret(NoContent, message_history, "Could not find prompt key", <<>>)
        ELSE IF page_number = 1 /\ ~env.prompts.fmt
        THEN S1Ret(NoContent, message_history,
                   "Error during Chat Completions API request", <<>>)
        ELSE IF env.api = "exception"
        THEN S1Ret(NoContent, asked, "Error during Chat Completions API request", asked)
        ELSE IF env.reply.kind = "none"
        THEN S1Ret(NoContent, answered,
                   "Error during Chat Completions API request", asked)
        ELSE IF env.reply.kind = "invalid"
        THEN S1Ret(NoContent, answered, "Error parsing JSON response", asked)
        ELSE IF ValidPage(env.reply, page_number, sel.expected_text_key)
        THEN S1Ret(env.reply, answered, NONE, asked)
        ELSE S1Ret(NoContent, answered, "Error parsing JSON response", asked)

\* A faulty copy: the caller's list itself is worked on.
list_SameObject(l) == [shared |-> TRUE, items |-> l]

\* Line 80, list(message_history): a new list object with the same items.
list(l) == [shared |-> FALSE, items |-> l]

\* The items of the caller's list after a call: lines 123 and 139 append to
\* current_history, which for page 1 is rebound to a new list (lines 114-117)
\* and else is the object made at line 80; the early returns (lines 75-78,
\* 97-98) append nothing.
CallerListAfter(page_number, message_history, style_type, env) ==
    LET current_history == list(message_history)
        r == generate_single_page_structure(page_number, message_history,
                                            style_type, env)
    IN  IF current_history.shared /\ page_number > 1 /\ r.sent # <<>>
        THEN r.history
        ELSE current_history.items

\* Image bytes are named by what they picture: page 0 is the cover.
ImageBytes == <<"img_cover", "img_p1", "img_p2", "img_p3", "img_p4", "img_p5">>

B64Strings == <<"b64_cover", "b64_p1", "b64_p2", "b64_p3", "b64_p4", "b64_p5">>

ImgOf(p) == ImageBytes[p + 1]

B64Of(p) == B64Strings[p + 1]

\* base64.b64decode: the empty string decodes to empty bytes, a string that
\* is not base64 raises.
b64decode(s) ==
    IF s = "" THEN [ok |-> TRUE, bytes |-> ""]
    ELSE IF \E i \in 1..Len(B64Strings) : B64Strings[i] = s
    THEN [ok |-> TRUE,
          bytes |-> ImageBytes[CHOOSE i \in 1..Len(B64Strings) : B64Strings[i] = s]]
    ELSE [ok |-> FALSE, bytes |-> NONE]

ImgRet(d, e, s) == [data |-> d, error |-> e, sent |-> s]

\* A faulty answer to a 2xx body: a body without b64_json yields (None, None).
ImageFromBody_SilentOnAbsent(b64) ==
    IF b64 = "absent"
    THEN ImgRet(NONE, NONE, TRUE)
    ELSE IF b64decode(b64).ok
    THEN ImgRet(b64decode(b64).bytes, NONE, TRUE)
    ELSE ImgRet(NONE, "An unexpected error occurred during image generation", TRUE)

\* The answer to a 2xx body: the decoded image, or an error.
ImageFromBody(b64) ==
    IF b64 = "absent"
    THEN ImgRet(NONE, "Error: Unexpected Images API response format.", TRUE)
    ELSE IF b64decode(b64).ok
    THEN ImgRet(b64decode(b64).bytes, NONE, TRUE)
    ELSE ImgRet(NONE, "An unexpected error occurred during image generation", TRUE)

\* env: key, http ("ok": a 2xx JSON body; "http_400", "http_error": raise_for_status
\* or the connection raised; "exception": anything else raised), b64 (the
\* body's data[0].b64_json, "absent" when the body has none).
generate_image_from_prompt(prompt_text, env) ==
    IF ~check_api_key(env.key)
    THEN ImgRet(NONE, "API key not configured.", FALSE)
    ELSE IF env.http = "ok"
    THEN ImageFromBody(env.b64)
    ELSE IF env.http = "http_400"
    THEN ImgRet(NONE, "[Potential Moderation Error] Error during Images API request", TRUE)
    ELSE IF env.http = "http_error"
    THEN ImgRet(NONE, "Error during Images API request", TRUE)
    ELSE ImgRet(NONE, "An unexpected error occurred during image generation", TRUE)

\* The image-edit wrapper: like generate_image_from_prompt, a (data, error)
\* pair from one request that also carries the input image.
edit_image_from_prompt(input_image, prompt_text, env) ==
    generate_image_from_prompt(prompt_text, env)

\* env: key, api ("ok" or "exception"), content: "dict" (a non-empty JSON
\* object of strings), "empty_dict", "dict_nonstr" (an object with a value
\* that is no string), "array", "invalid", "none".
infer_characters(story_concept, env) ==
    IF ~check_api_key(env.key)
    THEN ImgRet(NONE, "API key not configured or client not initialized.", FALSE)
    ELSE IF env.api = "exception"
    THEN ImgRet(NONE, "Error during Chat Completions API request for character inference", TRUE)
    ELSE IF env.content = "none"
    THEN ImgRet(NONE, "Error during Chat Completions API request for character inference", TRUE)
    ELSE IF env.content = "dict"
    THEN ImgRet("{chars}", NONE, TRUE)
    ELSE IF env.content = "empty_dict"
    THEN ImgRet("{}", NONE, TRUE)
    ELSE ImgRet(NONE, "Error parsing JSON response for character inference", TRUE)

\* ------------------------------------------------------------------ state
VARIABLES
    fe,                        \* the front end running: "cli", "ws", or "api" (wrappers called directly)
    pc,                        \* its position
    key,                       \* API_KEY
    prompts,                   \* PROMPTS
    total_pages,               \* total_pages / request.numberOfPages
    consistency,               \* use_experimental_consistency
    style,                     \* chosen_style['key'] / request.selectedStyle
    characters,
    cover_image_data,
    cover_error,
    page_num,
    message_history,
    stage1_calls,              \* the Stage 1 calls made so far: <<[page, ok, sent]>>
    page_data,
    image_prompt,              \* the template the prompt was formatted from
    input_image_for_edit,
    image_data,
    error2,
    image_calls,               \* the image calls made for the cover or the current page
    previous_page_image_data,
    files,                     \* the files written: {[name, data]}
    all_pages_successful,
    retries,                   \* revised prompts entered in the current retry loop
    write_outcome,             \* the write of the current page's image: "none", "ok", "failed"
    write_failures,            \* the pages whose image write raised IOError
    ws,                        \* the socket: terminal messages sent, late sends, closes
    ret,                       \* the last return of a wrapper called directly
    api_calls

vars == <<fe, pc, key, prompts, total_pages, consistency, style, characters,
          cover_image_data, cover_error, page_num, message_history, stage1_calls,
          page_data, image_prompt, input_image_for_edit, image_data, error2,
          image_calls, previous_page_image_data, files, all_pages_successful,
          retries, write_outcome, write_failures, ws, ret, api_calls>>

\* ------------------------------------------------------------ input sets
\* prompts.json as loaded: complete, or with one part missing or broken.
PromptsVariants ==
    {FullPrompts, NoPrompts,
     Prompts(TRUE, FALSE, TRUE, TRUE, TRUE, TRUE),
     Prompts(TRUE, TRUE, FALSE, TRUE, TRUE, TRUE),
     Prompts(TRUE, TRUE, TRUE, FALSE, TRUE, TRUE),
     Prompts(TRUE, TRUE, TRUE, TRUE, FALSE, TRUE),
     Prompts(TRUE, TRUE, TRUE, TRUE, TRUE, FALSE)}

\* The styles table of the CLI (key -> type), cut to one style of each type.
styles ==
    [stage2_image_childrens |-> "childrens", stage2_image_dark_anime |-> "narrative"]

CliStyleKeys == DOMAIN styles

\* The WebSocket request's selectedStyle is any string: one of the CLI's
\* narrative styles, and a style whose key holds the word narrative.
WsStyleKeys == {"stage2_image_dark_anime", "stage2_image_narrative_noir"}

\* "narrative" in selectedStyle.lower()
ContainsNarrative(s) == s \in {"stage2_image_narrative_noir"}

CliStyleType(s) == styles[s]

WsStyleType(s) == IF ContainsNarrative(s) THEN "narrative" ELSE "childrens"

StyleType == IF fe = "cli" THEN CliStyleType(style) ELSE WsStyleType(style)

\* Replies of the chat API to a page request, as the front ends meet them:
\* a valid page, a valid page whose text is empty, and text that is no JSON.
PageReplies(n, st) ==
    LET ks == {"page_number", "scene_description", Stage1Keys(st).expected_text_key}
    IN  {Content("object", ks, n, "int", "text"),
         Content("object", ks, n, "int", ""),
         Content("invalid", {}, 0, "int", "")}

S1Env(k, p, api, reply) == [key |-> k, prompts |-> p, api |-> api, reply |-> reply]

PageS1Envs(n, st) ==
    {S1Env(key, prompts, "ok", r) : r \in PageReplies(n, st)}
        \cup {S1Env(key, prompts, "exception", NoContent)}

\* The replies the WebSocket handler is run on: those above, and a page that
\* passes the wrapper's test of its keys (openai_api.py lines 144-148, which
\* look at no value but page_number) with null for scene_description.
WsPageReplies(n, st) ==
    PageReplies(n, st)
        \cup {[Content("object",
                       {"page_number", "scene_description",
                        Stage1Keys(st).expected_text_key},
                       n, "int", "text") EXCEPT !.scene = "null"]}

WsPageS1Envs(n, st) ==
    {S1Env(key, prompts, "ok", r) : r \in WsPageReplies(n, st)}
        \cup {S1Env(key, prompts, "exception", NoContent)}

ImgEnv(k, http, b64) == [key |-> k, http |-> http, b64 |-> b64]

\* Outcomes of an image request for page n (0: the cover): the picture, an
\* empty b64_json, an HTTP error.
PageImgEnvs(n) ==
    {ImgEnv(key, "ok", B64Of(n)), ImgEnv(key, "ok", ""), ImgEnv(key, "http_error", "absent")}

CharEnv(k, api, content) == [key |-> k, api |-> api, content |-> content]

CharEnvs(k) ==
    {CharEnv(k, "ok", c) : c \in {"dict", "empty_dict", "dict_nonstr", "array", "invalid", "none"}}
        \cup {CharEnv(k, "exception", "none")}

\* A faulty file name: the page number is not padded to two digits.
PageFileName_Unpadded(n) == <<"page_", n, ".png">>

\* Line 383 (and api.py line 313): f"page_{page_num:02d}.png", at least two digits.
PageFileName(n) ==
    IF n < 100 THEN <<"page_", n \div 10, n % 10, ".png">>
    ELSE <<"page_", n \div 100, (n \div 10) % 10, n % 10, ".png">>

CoverFileName == <<"cover.png">>

File(name, data) == [name |-> name, data |-> data]

\* One image request: the wrapper called, the image it edits (None for a
\* generation), the template its prompt came from, the page it is for
\* (0: the cover) and whether it returned an error.
Call(kind, input, prompt, pg, r) ==
    [kind |-> kind, input |-> input, prompt |-> prompt, page |-> pg,
     failed |-> r.error # NONE]

\* One request through an image wrapper, with the record of it.
Request(kind, input, prompt, pg, env) ==
    LET r == IF kind = "edit"
             THEN edit_image_from_prompt(input, prompt, env)
             ELSE generate_image_from_prompt(prompt, env)
    IN  [data |-> r.data, error |-> r.error,
         calls |-> <<Call(kind, IF kind = "edit" THEN input ELSE NONE, prompt, pg, r)>>]

\* One Stage 1 call: the page asked for, whether page data came back, the
\* messages sent, and whether the API answered (its reply joined the history).
S1Call(pg, r) ==
    [page |-> pg, ok |-> r.error = NONE /\ ~IsNone(r.data), sent |-> r.sent,
     answered |-> r.sent # <<>> /\ Len(r.history) > Len(r.sent)]

NewSocket ==
    [terminal |-> <<>>, late |-> FALSE, closes |-> 0, raised |-> FALSE,
     disconnected |-> FALSE]

\* ------------------------------------------------------------------- Init
InitCommon ==
    /\ characters = "{}"
    /\ cover_image_data = NONE
    /\ cover_error = NONE
    /\ page_num = 0
    /\ message_history = <<>>
    /\ stage1_calls = <<>>
    /\ page_data = NoContent
    /\ image_prompt = NONE
    /\ input_image_for_edit = NONE
    /\ image_data = NONE
    /\ error2 = NONE
    /\ image_calls = <<>>
    /\ previous_page_image_data = NONE
    /\ files = {}
    /\ all_pages_successful = TRUE
    /\ retries = 0
    /\ write_outcome = "none"
    /\ write_failures = {}
    /\ ws = NewSocket
    /\ ret = [fn |-> "none"]
    /\ api_calls = 0

Init ==
    /\ fe \in {"cli", "ws"}
    /\ pc = "start"
    /\ key \in KeyValues
    /\ prompts \in PromptsVariants
    /\ consistency \in BOOLEAN
    /\ \/ fe = "cli" /\ total_pages \in 1..MaxPages /\ style \in CliStyleKeys
       \/ fe = "ws" /\ total_pages \in 0..MaxPages /\ style \in WsStyleKeys
    \* only the WebSocket handler in consistency mode reads the edit template
    /\ prompts.loaded /\ ~prompts.editT => fe = "ws" /\ consistency
    /\ InitCommon

Config == <<fe, key, prompts, total_pages, consistency, style>>

\* -------------------------------------------------------- shared helpers
\* `continue`, or the end of the loop body: the for loop moves to the next
\* page, and past the last page the loop ends.
NextPage(afterLoop) ==
    /\ page_num' = page_num + 1
    /\ pc' = IF page_num + 1 > total_pages THEN afterLoop ELSE "stage1"

\* The locals of one loop iteration, not yet assigned at its start.
FreshPage ==
    /\ image_prompt' = NONE
    /\ input_image_for_edit' = NONE
    /\ image_data' = NONE
    /\ error2' = NONE
    /\ image_calls' = <<>>
    /\ retries' = 0
    /\ write_outcome' = "none"

\* A faulty continue: the page loop is left at the first failed page.
Continue_Breaks(afterLoop) == pc' = afterLoop /\ page_num' = page_num

\* A failure in the loop body ends the iteration (continue).
Continue(afterLoop) == NextPage(afterLoop)

\* A faulty cover save: cover.png is written whatever the cover request gave.
CoverWrite_Always(data, written) == files \cup {File(CoverFileName, data)}

\* cover.png is written when there is cover data and the write succeeds.
CoverWrite(data, written) ==
    IF Truthy(data) /\ written THEN files \cup {File(CoverFileName, data)} ELSE files

\* A faulty test of the characters: an empty dict passes.
NoCharacters_ErrorOnly(error, chars) == Truthy(error) \/ chars = "error"

\* create_book.py lines 106-112 and api.py lines 106-111 and 121-126: the run
\* ends on an inference or parse error and on an empty character set.
NoCharacters(error, chars) == Truthy(error) \/ chars = "error" \/ ~Truthy(chars)

\* ---------------------------------------------------------- create_book.py
\* Lines 48-53: the prerequisites.
CliStart ==
    /\ fe = "cli" /\ pc = "start"
    /\ pc' = IF check_api_key(key) /\ prompts.loaded THEN "chars" ELSE "exit"
    /\ UNCHANGED <<fe, key, prompts, total_pages, consistency, style, characters,
                   cover_image_data, cover_error, page_num, message_history,
                   stage1_calls, page_data, image_prompt, input_image_for_edit,
                   image_data, error2, image_calls, previous_page_image_data,
                   files, all_pages_successful, retries, ws, ret, api_calls>>
    /\ UNCHANGED <<write_outcome, write_failures>>

\* Lines 99-135: Quick Mode infers the characters, Full Mode reads at least one.
CliCharacters ==
    /\ fe = "cli" /\ pc = "chars"
    /\ \E quick_mode \in BOOLEAN :
         IF quick_mode
         THEN \E env \in CharEnvs(key) :
                LET r == infer_characters("concept", env)
                IN  IF NoCharacters(r.error, r.data)
                    THEN pc' = "exit" /\ UNCHANGED characters
                    ELSE pc' = "mkdir" /\ characters' = r.data
         ELSE pc' = "mkdir" /\ characters' = "{chars}"
    /\ UNCHANGED <<fe, key, prompts, total_pages, consistency, style,
                   cover_image_data, cover_error, page_num, message_history,
                   stage1_calls, page_data, image_prompt, input_image_for_edit,
                   image_data, error2, image_calls, previous_page_image_data,
                   files, all_pages_successful, retries, ws, ret, api_calls>>
    /\ UNCHANGED <<write_outcome, write_failures>>

\* Lines 138-147: the output directory.
CliMkdir ==
    /\ fe = "cli" /\ pc = "mkdir"
    /\ \E made \in BOOLEAN : pc' = IF made THEN "cover" ELSE "exit"
    /\ UNCHANGED <<fe, key, prompts, total_pages, consistency, style, characters,
                   cover_image_data, cover_error, page_num, message_history,
                   stage1_calls, page_data, image_prompt, input_image_for_edit,
                   image_data, error2, image_calls, previous_page_image_data,
                   files, all_pages_successful, retries, ws, ret, api_calls>>
    /\ UNCHANGED <<write_outcome, write_failures>>

\* Lines 149-166 and 206-209: the cover prompt and the first cover request.
CliCover ==
    /\ fe = "cli" /\ pc = "cover"
    /\ IF ~prompts.cover
       THEN /\ pc' = "pages"
            /\ UNCHANGED <<cover_image_data, cover_error, image_calls>>
       ELSE \E env \in PageImgEnvs(0) :
              LET q == Request("generate", NONE, "cover", 0, env)
              IN  /\ cover_image_data' = q.data
                  /\ cover_error' = q.error
                  /\ image_calls' = q.calls
                  /\ pc' = "cover_retry"
    /\ UNCHANGED <<fe, key, prompts, total_pages, consistency, style, characters,
                   page_num, message_history, stage1_calls, page_data, image_prompt,
                   input_image_for_edit, image_data, error2,
                   previous_page_image_data, files, all_pages_successful, retries,
                   ws, ret, api_calls>>
    /\ UNCHANGED <<write_outcome, write_failures>>

\* Lines 169-193: one turn of the cover's retry loop.
CliCoverRetry ==
    /\ fe = "cli" /\ pc = "cover_retry" /\ Truthy(cover_error)
    /\ \/ /\ cover_image_data' = NONE
          /\ cover_error' = NONE
          /\ UNCHANGED <<image_calls, retries>>
       \/ /\ retries < MaxRetries
          /\ \E env \in PageImgEnvs(0) :
               LET q == Request("generate", NONE, "user", 0, env)
               IN  /\ cover_image_data' = q.data
                   /\ cover_error' = q.error
                   /\ image_calls' = image_calls \o q.calls
          /\ retries' = retries + 1
    /\ UNCHANGED <<fe, pc, key, prompts, total_pages, consistency, style, characters,
                   page_num, message_history, stage1_calls, page_data, image_prompt,
                   input_image_for_edit, image_data, error2,
                   previous_page_image_data, files, all_pages_successful,
                   ws, ret, api_calls>>
    /\ UNCHANGED <<write_outcome, write_failures>>

\* Lines 196-204: the cover is saved when there is one.
CliCoverSave ==
    /\ fe = "cli" /\ pc = "cover_retry" /\ ~Truthy(cover_error)
    /\ \E written \in BOOLEAN : files' = CoverWrite(cover_image_data, written)
    /\ pc' = "pages"
    /\ UNCHANGED <<fe, key, prompts, total_pages, consistency, style, characters,
                   cover_image_data, cover_error, page_num, message_history,
                   stage1_calls, page_data, image_prompt, input_image_for_edit,
                   image_data, error2, image_calls, previous_page_image_data,
                   all_pages_successful, retries, ws, ret, api_calls>>
    /\ UNCHANGED <<write_outcome, write_failures>>

\* Lines 212-218: the page loop starts.
CliPages ==
    /\ fe = "cli" /\ pc = "pages"
    /\ all_pages_successful' = TRUE
    /\ message_history' = <<>>
    /\ previous_page_image_data' = NONE
    /\ page_num' = 1
    /\ pc' = IF 1 > total_pages THEN "finish" ELSE "stage1"
    /\ UNCHANGED <<fe, key, prompts, total_pages, consistency, style, characters,
                   cover_image_data, cover_error, stage1_calls, page_data,
                   image_prompt, input_image_for_edit, image_data, error2,
                   image_calls, files, retries, ws, ret, api_calls>>
    /\ UNCHANGED <<write_outcome, write_failures>>

\* A faulty Stage 1 test: a failed page goes on to Stage 2.
CliStage1Failed_Never(r) == FALSE

\* Lines 231-244: the page is given up when Stage 1 returned an error or no data.
CliStage1Failed(r) == Truthy(r.error) \/ IsNone(r.data)

\* Lines 222-244: Stage 1 of the current page.
CliStage1 ==
    /\ fe = "cli" /\ pc = "stage1"
    /\ \E env \in PageS1Envs(page_num, CliStyleType(style)) :
         LET r == generate_single_page_structure(page_num, message_history,
                                                 CliStyleType(style), env)
         IN  /\ message_history' = r.history
             /\ stage1_calls' = Append(stage1_calls, S1Call(page_num, r))
             /\ page_data' = r.data
             /\ IF CliStage1Failed(r)
                THEN all_pages_successful' = FALSE /\ Continue("finish")
                ELSE pc' = "stage2" /\ UNCHANGED <<all_pages_successful, page_num>>
    /\ FreshPage
    /\ UNCHANGED write_failures
    /\ UNCHANGED <<fe, key, prompts, total_pages, consistency, style, characters,
                   cover_image_data, cover_error, previous_page_image_data, files,
                   ws, ret, api_calls>>

\* A faulty choice of the input image: the cover for every page.
CliInputImage_AlwaysCover == cover_image_data

\* Lines 306-317: the image the page is edited from in consistency mode:
\* the cover for page 1, the previous page image after it.
CliInputImage ==
    IF page_num = 1 THEN cover_image_data
    ELSE IF page_num > 1 /\ Truthy(previous_page_image_data)
    THEN previous_page_image_data
    ELSE NONE

\* A faulty edit test: the retry loop falls back to standard generation.
CliEdits_NotOnRetry(input) == consistency /\ Truthy(input) /\ pc # "retry"

\* Lines 304 and 319, and line 365 in the retry loop: an edit is made in
\* consistency mode when there is an image to edit.
CliEdits(input) == consistency /\ Truthy(input)

\* Lines 274-340: the image prompt and the first image request of the page.
CliStage2 ==
    /\ fe = "cli" /\ pc = "stage2"
    /\ IF ~prompts.styleT
       THEN /\ all_pages_successful' = FALSE
            /\ Continue("finish")
            /\ UNCHANGED <<image_prompt, input_image_for_edit, image_data, error2,
                           image_calls>>
       ELSE \E env \in PageImgEnvs(page_num) :
              LET input == IF consistency THEN CliInputImage ELSE NONE
                  q == Request(IF CliEdits(input) THEN "edit" ELSE "generate",
                               input, "standard", page_num, env)
              IN  /\ image_prompt' = "standard"
                  /\ input_image_for_edit' = input
                  /\ image_data' = q.data
                  /\ error2' = q.error
                  /\ image_calls' = q.calls
                  /\ pc' = "retry"
                  /\ UNCHANGED <<all_pages_successful, page_num>>
    /\ UNCHANGED <<fe, key, prompts, total_pages, consistency, style, characters,
                   cover_image_data, cover_error, message_history, stage1_calls,
                   page_data, previous_page_image_data, files, retries, ws, ret,
                   api_calls>>
    /\ UNCHANGED <<write_outcome, write_failures>>

\* Lines 343-378: one turn of the page's retry loop: SKIP (or end of input),
\* or a revised prompt sent by the method that failed.
CliRetry ==
    /\ fe = "cli" /\ pc = "retry" /\ Truthy(error2)
    /\ \/ /\ image_data' = NONE
          /\ error2' = NONE
          /\ all_pages_successful' = FALSE
          /\ UNCHANGED <<image_prompt, image_calls, retries>>
       \/ /\ retries < MaxRetries
          /\ \E env \in PageImgEnvs(page_num) :
               LET q == Request(IF CliEdits(input_image_for_edit)
                                THEN "edit" ELSE "generate",
                                input_image_for_edit, "user", page_num, env)
               IN  /\ image_data' = q.data
                   /\ error2' = q.error
                   /\ image_calls' = image_calls \o q.calls
          /\ image_prompt' = "user"
          /\ retries' = retries + 1
          /\ UNCHANGED all_pages_successful
    /\ UNCHANGED <<fe, pc, key, prompts, total_pages, consistency, style, characters,
                   cover_image_data, cover_error, page_num, message_history,
                   stage1_calls, page_data, input_image_for_edit,
                   previous_page_image_data, files, ws, ret, api_calls>>
    /\ UNCHANGED <<write_outcome, write_failures>>

\* Lines 380-397: the page's image is saved when there is one.
CliSave ==
    /\ fe = "cli" /\ pc = "retry" /\ ~Truthy(error2)
    /\ IF Truthy(image_data)
       THEN \E written \in BOOLEAN :
              IF written
              THEN /\ files' = files \cup {File(PageFileName(page_num), image_data)}
                   /\ previous_page_image_data' =
                          IF consistency THEN image_data ELSE previous_page_image_data
                   /\ write_outcome' = "ok"
                   /\ UNCHANGED all_pages_successful
              ELSE /\ all_pages_successful' = FALSE
                   /\ write_outcome' = "failed"
                   /\ UNCHANGED <<files, previous_page_image_data>>
       ELSE UNCHANGED <<files, previous_page_image_data, all_pages_successful,
                        write_outcome>>
    /\ write_failures' = IF write_outcome' = "failed"
                         THEN write_failures \cup {page_num} ELSE write_failures
    /\ NextPage("finish")
    /\ UNCHANGED <<fe, key, prompts, total_pages, consistency, style, characters,
                   cover_image_data, cover_error, message_history, stage1_calls,
                   page_data, image_prompt, input_image_for_edit, image_data, error2,
                   image_calls, retries, ws, ret, api_calls>>

\* Lines 402-410: the report.
CliFinish ==
    /\ fe = "cli" /\ pc = "finish"
    /\ pc' = "done"
    /\ UNCHANGED <<fe, key, prompts, total_pages, consistency, style, characters,
                   cover_image_data, cover_error, page_num, message_history,
                   stage1_calls, page_data, image_prompt, input_image_for_edit,
                   image_data, error2, image_calls, previous_page_image_data,
                   files, all_pages_successful, retries, ws, ret, api_calls>>
    /\ UNCHANGED <<write_outcome, write_failures>>

CliNext ==
    \/ CliStart \/ CliCharacters \/ CliMkdir
    \/ CliCover \/ CliCoverRetry \/ CliCoverSave \/ CliPages
    \/ CliStage1 \/ CliStage2 \/ CliRetry \/ CliSave \/ CliFinish

\* ------------------------------------------------------------------ api.py
\* websocket.send_text of a message with this status.
Sent(status) ==
    [ws EXCEPT !.terminal = IF status \in {"error", "complete"}
                            THEN Append(@, status) ELSE @,
               !.late = @ \/ ws.terminal # <<>>]

\* The status a step of the cover or of a page reports last: "warning" when
\* something in it failed (lines 148, 163, 174, 179, 199, 203, 216, 247,
\* 265, 269, 286, 295, 307, 325), else "progress".
Report(failed) == IF failed THEN "warning" ELSE "progress"

\* json.loads of request.characterDescriptions and the isinstance check:
\* the characters, or "error" when the text is no JSON object.
ParseCharacters(text) ==
    IF text = "json_object" THEN "{chars}"
    ELSE IF text = "json_empty_object" THEN "{}"
    ELSE "error"

CharacterDescriptions ==
    {"absent", "", "json_invalid", "json_array", "json_empty_object", "json_object"}

\* Line 69: websocket.accept() raises (the client is gone before the
\* handshake ends); the call is outside the try, the handler is left at once.
WsAcceptRaises ==
    /\ fe = "ws" /\ pc = "start"
    /\ pc' = "exit"
    /\ ws' = [ws EXCEPT !.raised = TRUE, !.disconnected = TRUE]
    /\ UNCHANGED <<fe, key, prompts, total_pages, consistency, style, characters,
                   cover_image_data, cover_error, page_num, message_history,
                   stage1_calls, page_data, image_prompt, input_image_for_edit,
                   image_data, error2, image_calls, previous_page_image_data,
                   files, all_pages_successful, retries, ret, api_calls>>
    /\ UNCHANGED <<write_outcome, write_failures>>

\* Lines 69-94: the request is received and validated, then the prerequisites.
WsStart ==
    /\ fe = "ws" /\ pc = "start"
    /\ \E valid \in BOOLEAN :
         IF valid /\ check_api_key(key) /\ prompts.loaded
         THEN pc' = "chars" /\ UNCHANGED ws
         ELSE pc' = "finally" /\ ws' = Sent("error")
    /\ UNCHANGED <<fe, key, prompts, total_pages, consistency, style, characters,
                   cover_image_data, cover_error, page_num, message_history,
                   stage1_calls, page_data, image_prompt, input_image_for_edit,
                   image_data, error2, image_calls, previous_page_image_data,
                   files, all_pages_successful, retries, ret, api_calls>>
    /\ UNCHANGED <<write_outcome, write_failures>>

\* Lines 101-126: the characters are inferred (Quick Mode) or parsed.
WsCharacters ==
    /\ fe = "ws" /\ pc = "chars"
    /\ \E quickMode \in BOOLEAN :
         IF quickMode
         THEN \E env \in CharEnvs(key) :
                LET r == infer_characters("concept", env)
                IN  IF NoCharacters(r.error, r.data)
                    THEN pc' = "finally" /\ ws' = Sent("error") /\ UNCHANGED characters
                    ELSE pc' = "mkdir" /\ characters' = r.data /\ UNCHANGED ws
         ELSE \E text \in CharacterDescriptions :
                LET parsed == IF text \in {"absent", ""} THEN "{}"
                              ELSE ParseCharacters(text)
                IN  IF NoCharacters(NONE, parsed)
                    THEN pc' = "finally" /\ ws' = Sent("error") /\ UNCHANGED characters
                    ELSE pc' = "mkdir" /\ characters' = parsed /\ UNCHANGED ws
    /\ UNCHANGED <<fe, key, prompts, total_pages, consistency, style,
                   cover_image_data, cover_error, page_num, message_history,
                   stage1_calls, page_data, image_prompt, input_image_for_edit,
                   image_data, error2, image_calls, previous_page_image_data,
                   files, all_pages_successful, retries, ret, api_calls>>
    /\ UNCHANGED <<write_outcome, write_failures>>

\* Lines 129-139: the output directory.
WsMkdir ==
    /\ fe = "ws" /\ pc = "mkdir"
    /\ \E made \in BOOLEAN :
         IF made THEN pc' = "cover" /\ UNCHANGED ws
         ELSE pc' = "finally" /\ ws' = Sent("error")
    /\ UNCHANGED <<fe, key, prompts, total_pages, consistency, style, characters,
                   cover_image_data, cover_error, page_num, message_history,
                   stage1_calls, page_data, image_prompt, input_image_for_edit,
                   image_data, error2, image_calls, previous_page_image_data,
                   files, all_pages_successful, retries, ret, api_calls>>
    /\ UNCHANGED <<write_outcome, write_failures>>

\* Lines 141-186: the cover is requested and saved, and the page loop starts.
WsCover ==
    /\ fe = "ws" /\ pc = "cover"
    /\ IF ~prompts.cover
       THEN UNCHANGED <<cover_image_data, cover_error, image_calls, files>>
                /\ previous_page_image_data' = cover_image_data
                /\ ws' = Sent(Report(TRUE))
       ELSE \E env \in PageImgEnvs(0), written \in BOOLEAN :
              LET q == Request("generate", NONE, "cover", 0, env)
                  data == IF Truthy(q.error) THEN NONE ELSE q.data
              IN  /\ cover_image_data' = data
                  /\ cover_error' = q.error
                  /\ image_calls' = q.calls
                  /\ files' = IF Truthy(q.error) THEN files
                              ELSE CoverWrite(q.data, written)
                  /\ previous_page_image_data' = data
                  /\ ws' = Sent(Report(Truthy(q.error) \/ (Truthy(q.data) /\ ~written)))
    /\ message_history' = <<>>
    /\ page_num' = 1
    /\ pc' = IF 1 > total_pages THEN "complete" ELSE "stage1"
    /\ UNCHANGED <<fe, key, prompts, total_pages, consistency, style, characters,
                   stage1_calls, page_data, image_prompt, input_image_for_edit,
                   image_data, error2, all_pages_successful, retries, ret,
                   api_calls>>
    /\ UNCHANGED <<write_outcome, write_failures>>

\* Lines 197-217: the page is given up when Stage 1 returned an error or no
\* data, or a page without text.
WsSkipsPage(r) == Truthy(r.error) \/ IsNone(r.data) \/ ~Truthy(r.data.text)

\* Lines 191-221: Stage 1 of the current page; a page without text is skipped.
WsStage1 ==
    /\ fe = "ws" /\ pc = "stage1"
    /\ \E env \in WsPageS1Envs(page_num, WsStyleType(style)) :
         LET r == generate_single_page_structure(page_num, message_history,
                                                 WsStyleType(style), env)
         IN  /\ message_history' = r.history
             /\ stage1_calls' = Append(stage1_calls, S1Call(page_num, r))
             /\ page_data' = r.data
             /\ IF WsSkipsPage(r)
                THEN Continue("complete")
                ELSE pc' = "stage2" /\ UNCHANGED page_num
             /\ ws' = Sent(Report(WsSkipsPage(r)))
    /\ FreshPage
    /\ UNCHANGED write_failures
    /\ UNCHANGED <<fe, key, prompts, total_pages, consistency, style, characters,
                   cover_image_data, cover_error, previous_page_image_data, files,
                   all_pages_successful, ret, api_calls>>

\* Lines 241-254: the template of the image prompt: the style's edit template
\* in consistency mode when prompts.json has it, else the style's own;
\* "missing" when prompts.json has no such template.
WsTemplate ==
    IF consistency /\ page_num > 0 /\ prompts.editT THEN "edit"
    ELSE IF prompts.styleT THEN "standard"
    ELSE "missing"

\* A faulty edit test: the consistency flag is not looked at.
WsEdits_IgnoresFlag == page_num > 0 /\ Truthy(previous_page_image_data)

\* Line 276: an edit is made in consistency mode when there is a previous image.
WsEdits == consistency /\ page_num > 0 /\ Truthy(previous_page_image_data)

\* A faulty image request: a failed edit is not followed by a generation.
WsImageRequest_NoFallback(tmpl, env, env2) ==
    LET e == Request("edit", previous_page_image_data, tmpl, page_num, env)
        g == Request("generate", NONE, tmpl, page_num, env)
    IN  IF WsEdits
        THEN [e EXCEPT !.data = IF Truthy(e.error) THEN NONE ELSE e.data]
        ELSE [g EXCEPT !.data = IF Truthy(g.error) THEN NONE ELSE g.data]

\* A faulty image request: the generation after a failed edit is made twice.
WsImageRequest_ThirdCall(tmpl, env, env2) ==
    LET e == Request("edit", previous_page_image_data, tmpl, page_num, env)
        g == Request("generate", NONE, tmpl, page_num, IF WsEdits THEN env2 ELSE env)
        fallback == [g EXCEPT !.data = IF Truthy(g.error) THEN NONE ELSE g.data]
    IN  IF WsEdits
        THEN IF Truthy(e.error)
             THEN [fallback EXCEPT !.calls = e.calls \o g.calls \o g.calls]
             ELSE e
        ELSE fallback

\* Lines 276-308: an edit of the previous image, with a standard generation
\* after a failed edit, or a standard generation; a failure leaves no image.
WsImageRequest(tmpl, env, env2) ==
    LET e == Request("edit", previous_page_image_data, tmpl, page_num, env)
        g == Request("generate", NONE, tmpl, page_num, IF WsEdits THEN env2 ELSE env)
        fallback == [g EXCEPT !.data = IF Truthy(g.error) THEN NONE ELSE g.data]
    IN  IF WsEdits
        THEN IF Truthy(e.error)
             THEN [fallback EXCEPT !.calls = e.calls \o g.calls]
             ELSE e
        ELSE fallback

\* Lines 206, 228-231: scene_desc is the value of scene_description, and
\* scene_desc.lower() raises AttributeError when it is not a string.
WsSceneRaises == page_data.scene # "str"

\* Lines 228-308: the characters of the scene, the image prompt, then the
\* image request. An AttributeError of line 230 is caught by no try of the
\* loop: it goes to `except Exception` (lines 342-347), which sends status
\* error.
WsStage2 ==
    /\ fe = "ws" /\ pc = "stage2"
    /\ IF WsSceneRaises
       THEN /\ pc' = "finally"
            /\ ws' = [Sent("error") EXCEPT !.raised = TRUE]
            /\ UNCHANGED <<page_num, image_prompt, image_data, error2, image_calls>>
       ELSE IF WsTemplate = "missing"
       THEN /\ Continue("complete")
            /\ ws' = Sent(Report(TRUE))
            /\ UNCHANGED <<image_prompt, image_data, error2, image_calls>>
       ELSE /\ image_prompt' = WsTemplate
            /\ pc' = "save"
            /\ UNCHANGED page_num
            /\ \E env \in PageImgEnvs(page_num), env2 \in PageImgEnvs(page_num) :
                 LET q == WsImageRequest(WsTemplate, env, env2)
                 IN  /\ image_data' = q.data
                     /\ error2' = q.error
                     /\ image_calls' = q.calls
                     /\ ws' = Sent(Report(\E i \in 1..Len(q.calls) : q.calls[i].failed))
    /\ UNCHANGED <<fe, key, prompts, total_pages, consistency, style, characters,
                   cover_image_data, cover_error, message_history, stage1_calls,
                   page_data, input_image_for_edit, previous_page_image_data, files,
                   all_pages_successful, retries, ret, api_calls>>
    /\ UNCHANGED <<write_outcome, write_failures>>

\* Lines 311-325: the page's image is saved when there is one.
WsSave ==
    /\ fe = "ws" /\ pc = "save"
    /\ IF Truthy(image_data)
       THEN \E written \in BOOLEAN :
              IF written
              THEN /\ files' = files \cup {File(PageFileName(page_num), image_data)}
                   /\ previous_page_image_data' =
                          IF consistency THEN image_data ELSE previous_page_image_data
                   /\ write_outcome' = "ok"
              ELSE /\ write_outcome' = "failed"
                   /\ UNCHANGED <<files, previous_page_image_data>>
       ELSE UNCHANGED <<files, previous_page_image_data, write_outcome>>
    /\ write_failures' = IF write_outcome' = "failed"
                         THEN write_failures \cup {page_num} ELSE write_failures
    /\ ws' = Sent(Report(write_outcome' = "failed"))
    /\ NextPage("complete")
    /\ UNCHANGED <<fe, key, prompts, total_pages, consistency, style, characters,
                   cover_image_data, cover_error, message_history, stage1_calls,
                   page_data, image_prompt, input_image_for_edit, image_data, error2,
                   image_calls, all_pages_successful, retries, ret, api_calls>>

\* Lines 330-331: the final message.
WsComplete ==
    /\ fe = "ws" /\ pc = "complete"
    /\ ws' = Sent("complete")
    /\ pc' = "finally"
    /\ UNCHANGED <<fe, key, prompts, total_pages, consistency, style, characters,
                   cover_image_data, cover_error, page_num, message_history,
                   stage1_calls, page_data, image_prompt, input_image_for_edit,
                   image_data, error2, image_calls, previous_page_image_data,
                   files, all_pages_successful, retries, ret, api_calls>>
    /\ UNCHANGED <<write_outcome, write_failures>>

\* Lines 333-347: a send finds the client gone (WebSocketDisconnect, nothing
\* more can be sent), or something unexpected raises and the error is sent.
WsRaise ==
    /\ fe = "ws"
    /\ pc \in {"start", "chars", "mkdir", "cover", "stage1", "stage2", "save", "complete"}
    /\ \/ ws' = [ws EXCEPT !.raised = TRUE, !.disconnected = TRUE]
       \/ ws' = [Sent("error") EXCEPT !.raised = TRUE]
    /\ pc' = "finally"
    /\ UNCHANGED <<fe, key, prompts, total_pages, consistency, style, characters,
                   cover_image_data, cover_error, page_num, message_history,
                   stage1_calls, page_data, image_prompt, input_image_for_edit,
                   image_data, error2, image_calls, previous_page_image_data,
                   files, all_pages_successful, retries, ret, api_calls>>
    /\ UNCHANGED <<write_outcome, write_failures>>

\* A faulty close: the socket is left as it is.
close_Nothing(w) == w

\* Line 351: websocket.close() is called; what it raises is ignored.
close(w) == [w EXCEPT !.closes = @ + 1]

\* Lines 348-353: the socket is closed.
WsFinally ==
    /\ fe = "ws" /\ pc = "finally"
    /\ ws' = close(ws)
    /\ pc' = "closed"
    /\ UNCHANGED <<fe, key, prompts, total_pages, consistency, style, characters,
                   cover_image_data, cover_error, page_num, message_history,
                   stage1_calls, page_data, image_prompt, input_image_for_edit,
                   image_data, error2, image_calls, previous_page_image_data,
                   files, all_pages_successful, retries, ret, api_calls>>
    /\ UNCHANGED <<write_outcome, write_failures>>

WsNext ==
    \/ WsAcceptRaises \/ WsStart \/ WsCharacters \/ WsMkdir \/ WsCover
    \/ WsStage1 \/ WsStage2 \/ WsSave \/ WsComplete \/ WsRaise \/ WsFinally

Next == CliNext \/ WsNext

Spec == Init /\ [][Next]_vars

\* The WebSocket handler on its own, run to its end. The handler is one
\* coroutine: past receive_text (line 73) every await is a send, which
\* returns or raises, and every API call returns a (data, error) pair, so a
\* step that can be taken is taken. Before the request has arrived the
\* handler waits for the client, and nothing is assumed there.
InitWs == Init /\ fe = "ws" /\ total_pages <= MaxWsPages

WsRun == WsNext /\ pc # "start"

SpecWs == InitWs /\ [][WsNext]_vars /\ WF_vars(WsRun)

\* ----------------------------- previous_page_image_data in either front end
\* The pages before page n whose image file was written.
SavedBefore(n) == {m \in 1..(n - 1) : \E f \in files : f.name = PageFileName(m)}

\* The image written for the last of them.
LastSavedImage(n) ==
    LET m == CHOOSE x \in SavedBefore(n) : \A y \in SavedBefore(n) : y <= x
    IN  (CHOOSE f \in files : f.name = PageFileName(m)).data

\* create_book.py lines 216 and 390-391: previous_page_image_data at page n
\* in consistency mode: None until a page image is written, then the last
\* image written.
CliPrevious(n) == IF SavedBefore(n) = {} THEN NONE ELSE LastSavedImage(n)

\* api.py lines 184 and 320-321: previous_page_image_data at page n in
\* consistency mode: the cover until a page image is written, then the last
\* image written.
WsPrevious(n) == IF SavedBefore(n) = {} THEN cover_image_data ELSE LastSavedImage(n)

Choice(input) ==
    IF Truthy(input) THEN [kind |-> "edit", input |-> input]
    ELSE [kind |-> "generate", input |-> NONE]

\* create_book.py lines 304-332: the first image request of page n in
\* consistency mode.
CliChoice(n) == Choice(IF n = 1 THEN cover_image_data ELSE CliPrevious(n))

\* api.py lines 276-300: the first image request of page n in consistency
\* mode.
WsChoice(n) == Choice(WsPrevious(n))

\* ------------------------------------------- the wrappers called directly
\* One process calls the wrappers directly (as the __main__ block of
\* openai_api.py does): Stage 1 for pages 1, 2, ... each with the history
\* the call before returned, and the image and character wrappers.
StyleTypes == {"childrens", "narrative", "comic"}

\* Replies of the chat API: JSON objects with all four keys, with one key
\* missing or with none, their page_number 1 or 2 (a number) or "1" (a
\* string), and replies that are no JSON object.
ApiReplies ==
    {Content("object", ks, n, "int", "text") :
        ks \in {TextKeys} \cup {TextKeys \ {k} : k \in TextKeys} \cup {{}},
        n \in 1..2}
      \cup {Content("object", TextKeys, 1, "str", "text"),
            Content("array", {}, 0, "int", ""),
            Content("invalid", {}, 0, "int", ""),
            Content("none", {}, 0, "int", "")}

ApiS1Envs ==
    {S1Env(key, prompts, "ok", r) : r \in ApiReplies}
        \cup {S1Env(key, prompts, "exception", NoContent)}

ApiImgEnvs ==
    {ImgEnv(key, "ok", b) : b \in {"absent", "", B64Of(1), "not base64"}}
        \cup {ImgEnv(key, h, "absent") : h \in {"http_400", "http_error", "exception"}}

InitApi ==
    /\ fe = "api"
    /\ pc = "api"
    /\ key \in KeyValues
    /\ prompts \in PromptsVariants
    /\ prompts.loaded => prompts.cover /\ prompts.styleT /\ prompts.editT
    /\ consistency = FALSE
    /\ total_pages = MaxApiCalls
    /\ style \in StyleTypes
    /\ InitCommon

ApiStage1 ==
    /\ fe = "api" /\ api_calls < MaxApiCalls
    /\ \E env \in ApiS1Envs :
         LET n == api_calls + 1
             r == generate_single_page_structure(n, message_history, style, env)
         IN  /\ ret' = [fn |-> "generate_single_page_structure", data |-> r.data,
                        error |-> r.error, history |-> r.history, sent |-> r.sent,
                        page_number |-> n, style_type |-> style,
                        message_history |-> message_history, reply |-> env.reply,
                        api |-> env.api,
                        caller_list |-> CallerListAfter(n, message_history, style, env)]
             /\ message_history' = r.history
             /\ stage1_calls' = Append(stage1_calls, S1Call(n, r))
    /\ api_calls' = api_calls + 1
    /\ UNCHANGED <<fe, pc, key, prompts, total_pages, consistency, style, characters,
                   cover_image_data, cover_error, page_num, page_data, image_prompt,
                   input_image_for_edit, image_data, error2, image_calls,
                   previous_page_image_data, files, all_pages_successful, retries, ws>>
    /\ UNCHANGED <<write_outcome, write_failures>>

ApiImage ==
    /\ fe = "api" /\ api_calls < MaxApiCalls
    /\ \E env \in ApiImgEnvs :
         LET r == generate_image_from_prompt("standard", env)
         IN  ret' = [fn |-> "generate_image_from_prompt", data |-> r.data,
                     error |-> r.error, sent |-> r.sent]
    /\ api_calls' = api_calls + 1
    /\ UNCHANGED <<fe, pc, key, prompts, total_pages, consistency, style, characters,
                   cover_image_data, cover_error, page_num, message_history,
                   stage1_calls, page_data, image_prompt, input_image_for_edit,
                   image_data, error2, image_calls, previous_page_image_data, files,
                   all_pages_successful, retries, ws>>
    /\ UNCHANGED <<write_outcome, write_failures>>

ApiInfer ==
    /\ fe = "api" /\ api_calls < MaxApiCalls
    /\ \E env \in CharEnvs(key) :
         LET r == infer_characters("concept", env)
         IN  ret' = [fn |-> "infer_characters", data |-> r.data,
                     error |-> r.error, sent |-> r.sent]
    /\ api_calls' = api_calls + 1
    /\ UNCHANGED <<fe, pc, key, prompts, total_pages, consistency, style, characters,
                   cover_image_data, cover_error, page_num, message_history,
                   stage1_calls, page_data, image_prompt, input_image_for_edit,
                   image_data, error2, image_calls, previous_page_image_data, files,
                   all_pages_successful, retries, ws>>
    /\ UNCHANGED <<write_outcome, write_failures>>

NextApi == ApiStage1 \/ ApiImage \/ ApiInfer

SpecApi == InitApi /\ [][NextApi]_vars

\* ------------------------------------------- every entry point of the code
InitAll == Init \/ InitApi

NextAll == Next \/ NextApi

SpecAll == InitAll /\ [][NextAll]_vars

\* ================================================================= claims
FrontEnd == fe \in {"cli", "ws"}

\* The page the image calls on record are for (0: the cover).
CallsPage == image_calls[1].page

\* The retry loop of the CLI is still running.
Retrying == fe = "cli" /\ pc = "retry" /\ Truthy(error2)

\* Stage 2 of a page is over: no further image call is made for it.
PageSettled == image_calls # <<>> /\ CallsPage >= 1 /\ ~Retrying

\* The save step of the page on record is over.
AfterSave == image_calls # <<>> /\ CallsPage >= 1 /\ page_num = CallsPage + 1

TwoDigitName(n) == <<"page_", n \div 10, n % 10, ".png">>

NoFileNamed(name) == \A f \in files : f.name # name

Stage1Ran == Len(stage1_calls) = total_pages

Assistants(msgs) == Cardinality({i \in 1..Len(msgs) : msgs[i].role = "assistant"})

\* ------------------------------------------------------------------- C1
\* C1: every return of generate_image_from_prompt, infer_characters and
\* generate_single_page_structure has exactly one of data and error None.
C1_ExactlyOneNone ==
    ret.fn # "none" =>
        LET noData == IF ret.fn = "generate_single_page_structure"
                      THEN IsNone(ret.data) ELSE ret.data = NONE
        IN  noData # (ret.error = NONE)

\* Empty image bytes come back with no error: data is not None, error is.
C1_Witness ==
    /\ ret.fn = "generate_image_from_prompt"
    /\ ret.data = ""
    /\ ret.error = NONE

\* ------------------------------------------------------------------- C8
ExpectedTextKey == IF ret.style_type = "narrative" THEN "script_text" ELSE "page_text"

GoodReply ==
    /\ ret.reply.kind = "object"
    /\ {"page_number", "scene_description", ExpectedTextKey} \subseteq ret.reply.keys
    /\ ret.reply.pnType = "int"
    /\ ret.reply.pn = ret.page_number

FailedEdit(i) == image_calls[i].kind = "edit" /\ image_calls[i].failed

\* The statement as written: in both front ends a failed edit of a page is
\* followed by a standard generation before the page is given up.
C2_EditErrorThenGenerate ==
    PageSettled =>
        \A i \in 1..Len(image_calls) :
            FailedEdit(i) =>
                \E j \in (i + 1)..Len(image_calls) : image_calls[j].kind = "generate"

\* C2: in the WebSocket handler a failed edit of a page is followed at once
\* by a standard generation for the same page; in the CLI a failed edit is
\* followed only by an edit of the same input image, or by nothing.
C2_FallbackInWsRetryInCli ==
    \A i \in 1..Len(image_calls) :
        FailedEdit(i) /\ image_calls[i].page >= 1 =>
            IF fe = "ws"
            THEN /\ i < Len(image_calls)
                 /\ image_calls[i + 1].kind = "generate"
                 /\ image_calls[i + 1].page = image_calls[i].page
            ELSE \/ i = Len(image_calls)
                 \/ /\ image_calls[i + 1].kind = "edit"
                    /\ image_calls[i + 1].input = image_calls[i].input

\* The edit of a page failed in the WebSocket handler and the page is settled.
C2_Witness ==
    /\ fe = "ws"
    /\ PageSettled
    /\ Len(image_calls) = 2
    /\ FailedEdit(1)

\* ------------------------------------------------------------------- C3
\* The statement as written: in consistency mode the Stage 2 request of
\* every page is an edit of the image of the page before it (of the cover
\* for page 1).
C3_EveryPageEditsPrevious ==
    consistency /\ image_calls # <<>> /\ CallsPage >= 1 =>
        /\ image_calls[1].kind = "edit"
        /\ image_calls[1].input = ImgOf(CallsPage - 1)

\* The image of the page before page n (the cover for page 1) was obtained.
PredecessorAtHand(n) ==
    IF n = 1 THEN Truthy(cover_image_data)
    ELSE File(TwoDigitName(n - 1), ImgOf(n - 1)) \in files

\* C3: in consistency mode the Stage 2 request of a page whose predecessor
\* image (the cover for page 1) was obtained is an edit of that image.
C3_EditsPreviousWhenAtHand ==
    consistency /\ image_calls # <<>> /\ CallsPage >= 1 /\ PredecessorAtHand(CallsPage) =>
        /\ image_calls[1].kind = "edit"
        /\ image_calls[1].input = ImgOf(CallsPage - 1)

\* Page 2 is requested as an edit of the image of page 1.
C3_Witness ==
    /\ consistency
    /\ image_calls # <<>>
    /\ CallsPage = 2
    /\ PredecessorAtHand(2)
    /\ image_calls[1].kind = "edit"
    /\ image_calls[1].input = ImgOf(1)

\* ------------------------------------------------------------------- C4
\* C4: an image request for a page is made only after the Stage 1 call of
\* that page gave page data; a page whose Stage 1 failed has no image
\* request and no image file.
C4_Stage2OnlyAfterStage1 ==
    FrontEnd =>
        /\ \A i \in 1..Len(image_calls) :
               image_calls[i].page >= 1 =>
                   \E k \in 1..Len(stage1_calls) :
                       stage1_calls[k].page = image_calls[i].page /\ stage1_calls[k].ok
        /\ \A k \in 1..Len(stage1_calls) :
               ~stage1_calls[k].ok =>
                   /\ NoFileNamed(TwoDigitName(stage1_calls[k].page))
                   /\ \A i \in 1..Len(image_calls) :
                          image_calls[i].page # stage1_calls[k].page

\* Stage 1 of page 1 failed and the image of page 2 is requested.
C4_Witness ==
    /\ FrontEnd
    /\ Len(stage1_calls) = 2
    /\ ~stage1_calls[1].ok
    /\ image_calls # <<>>
    /\ CallsPage = 2
    /\ NoFileNamed(TwoDigitName(1))

C6_RunningHistorySent ==
    FrontEnd =>
        \A k \in 1..Len(stage1_calls) :
            LET c == stage1_calls[k]
                n == Len(c.sent)
                answered == Cardinality({m \in 1..(k - 1) : stage1_calls[m].answered})
            IN  c.page > 1 /\ c.sent # <<>> =>
                    /\ n >= 3
                    /\ c.sent[1].role = "system"
                    /\ c.sent[2].role = "user"
                    /\ c.sent[2].content = "initial"
                    /\ Assistants(c.sent) >= answered
                    /\ c.sent[n].role = "user"
                    /\ c.sent[n].content = "next"
                    /\ c.sent[n].page = c.page

\* ------------------------------------------------------------------- C7
\* The statement as written: a page that ends with image data and no error
\* has its file; a page without image data has none.
C7_ImageDataWritten ==
    AfterSave =>
        /\ image_data # NONE /\ error2 = NONE =>
               File(TwoDigitName(CallsPage), image_data) \in files
        /\ image_data = NONE => NoFileNamed(TwoDigitName(CallsPage))

\* C7: for a page that ends with non-empty image data and no error the
\* write of page_<two digits>.png is attempted, and the file holds the data
\* unless the write raised; a page that ends without image data, or with
\* empty data, has no file.
C7_NonEmptyDataWrittenUnlessIOError ==
    AfterSave =>
        /\ Truthy(image_data) /\ error2 = NONE =>
               /\ write_outcome \in {"ok", "failed"}
               /\ write_outcome = "ok" =>
                      File(TwoDigitName(CallsPage), image_data) \in files
        /\ ~Truthy(image_data) \/ write_outcome # "ok" =>
               NoFileNamed(TwoDigitName(CallsPage))
        /\ ~Truthy(image_data) => write_outcome = "none"

\* Page 2 ended with image data and its file is written.
C7_Witness ==
    /\ AfterSave
    /\ CallsPage = 2
    /\ Truthy(image_data)
    /\ write_outcome = "ok"
    /\ File(TwoDigitName(2), image_data) \in files

\* ------------------------------------------------------------------- C9
\* C9: with consistency mode off no edit call is made, whatever images
\* there are.
C9_NoEditWithoutConsistency ==
    FrontEnd /\ ~consistency =>
        \A i \in 1..Len(image_calls) : image_calls[i].kind = "generate"

\* Consistency is off, the previous image is there, and page 2 is generated.
C9_Witness ==
    /\ FrontEnd
    /\ ~consistency
    /\ Truthy(previous_page_image_data)
    /\ image_calls # <<>>
    /\ CallsPage = 2
    /\ image_calls[1].kind = "generate"

\* ------------------------------------------------------------------ C10
\* C10: the cover is requested before Stage 1 of any page; a run whose cover
\* failed still calls Stage 1 for every page; cover.png exists only with the
\* cover data that was obtained.
C10_CoverFirstAndNeverFatal ==
    FrontEnd =>
        /\ \A i \in 1..Len(image_calls) :
               image_calls[i].page = 0 => stage1_calls = <<>>
        /\ stage1_calls # <<>> => pc \notin {"start", "chars", "mkdir", "cover", "cover_retry"}
        /\ fe = "cli" /\ pc = "exit" => image_calls = <<>> /\ page_num = 0
        /\ fe = "cli" /\ pc \in {"finish", "done"} => Stage1Ran
        /\ fe = "ws" /\ ~ws.raised /\ pc \in {"complete", "finally", "closed"} =>
               Stage1Ran \/ (page_num = 0 /\ image_calls = <<>>)
        /\ \A f \in files :
               f.name = CoverFileName => Truthy(f.data) /\ f.data = cover_image_data
        /\ ~Truthy(cover_image_data) => NoFileNamed(CoverFileName)

\* The cover request failed, and every page went through Stage 1.
C10_Witness ==
    /\ fe = "ws"
    /\ pc = "complete"
    /\ prompts.cover
    /\ Truthy(cover_error)
    /\ ~Truthy(cover_image_data)
    /\ NoFileNamed(CoverFileName)
    /\ total_pages >= 2
    /\ Stage1Ran
    /\ stage1_calls[total_pages].ok

\* ------------------------------------------------------------------ C11
\* The run is at or past the creation of the output directory.
PastCharacters ==
    pc \in {"mkdir", "cover", "cover_retry", "pages", "stage1", "stage2", "retry",
            "save", "finish", "done", "complete"}

\* C11: in both front ends the cover request and every Stage 1 call are made
\* only with a non-empty dict of characters; a run without one has made no
\* image call and no page call and has written nothing.
C11_CharactersBeforeAnyCall ==
    FrontEnd =>
        /\ PastCharacters \/ image_calls # <<>> \/ stage1_calls # <<>> =>
               characters = "{chars}"
        /\ characters # "{chars}" =>
               image_calls = <<>> /\ stage1_calls = <<>> /\ files = {} /\ page_num = 0

\* The cover was requested and Stage 1 of page 1 was called with characters.
C11_Witness ==
    /\ fe = "ws"
    /\ characters = "{chars}"
    /\ Len(stage1_calls) = 1
    /\ stage1_calls[1].sent # <<>>
    /\ Truthy(cover_image_data)

\* ------------------------------------------------------------------ C12
KeyConfigured == key # "missing" /\ key # "YOUR_API_KEY_HERE"

\* The wrapper called directly sent a request to its API.
RequestSent ==
    IF ret.fn = "generate_single_page_structure" THEN ret.sent # <<>> ELSE ret.sent

RefusedWithoutRequest == ret.error # NONE /\ ~RequestSent

\* A front end without the key or without the prompts stops before the
\* character inference, the cover and the pages.
FrontEndStopsWithoutPrerequisites ==
    FrontEnd /\ ~(KeyConfigured /\ prompts.loaded) =>
        /\ pc \in {"start", "exit", "finally", "closed"}
        /\ characters = "{}"
        /\ image_calls = <<>>
        /\ stage1_calls = <<>>
        /\ files = {}

\* The statement as written: without the key or without the prompts the
\* front ends stop first and every wrapper called directly returns an error
\* without a request.
C12_NoRequestWithoutPrerequisites ==
    /\ FrontEndStopsWithoutPrerequisites
    /\ fe = "api" /\ ret.fn # "none" /\ ~(KeyConfigured /\ prompts.loaded) =>
           RefusedWithoutRequest

\* C12: without the key or without the prompts the front ends stop first;
\* every wrapper called directly without the key returns an error without a
\* request, and so does generate_single_page_structure without the prompts.
C12_NoRequestWithoutKey ==
    /\ FrontEndStopsWithoutPrerequisites
    /\ fe = "api" /\ ret.fn # "none" =>
           /\ ~KeyConfigured => RefusedWithoutRequest
           /\ ~prompts.loaded /\ ret.fn = "generate_single_page_structure" =>
                  RefusedWithoutRequest

\* The image wrapper was called with the placeholder key and refused.
C12_Witness ==
    /\ fe = "api"
    /\ key = "YOUR_API_KEY_HERE"
    /\ ret.fn = "generate_image_from_prompt"
    /\ ret.error = "API key not configured."
    /\ ~ret.sent

\* ------------------------------------------------------------------ C13
LastCall == image_calls[Len(image_calls)]

\* C13: in the CLI every retry of a page image repeats the first call's
\* method and input image with the user's prompt and follows a failed call;
\* while the last call's error stands the run stays in the retry loop; after
\* SKIP the page has no image, no file, and the run is not fully successful.
C13_RetrySameMethodUntilSkip ==
    fe = "cli" /\ image_calls # <<>> /\ CallsPage >= 1 =>
        /\ \A i \in 2..Len(image_calls) :
               /\ image_calls[i - 1].failed
               /\ image_calls[i].kind = image_calls[1].kind
               /\ image_calls[i].input = image_calls[1].input
               /\ image_calls[i].prompt = "user"
        /\ Truthy(error2) => pc = "retry" /\ page_num = CallsPage /\ LastCall.failed
        /\ ~Truthy(error2) /\ LastCall.failed =>
               /\ image_data = NONE
               /\ ~all_pages_successful
               /\ write_outcome = "none"
               /\ NoFileNamed(TwoDigitName(CallsPage))

\* An edit failed, the edit with the revised prompt failed, the user skipped.
C13_Witness ==
    /\ fe = "cli"
    /\ AfterSave
    /\ Len(image_calls) = 2
    /\ image_calls[1].kind = "edit"
    /\ image_calls[2].kind = "edit"
    /\ LastCall.failed
    /\ ~all_pages_successful

\* ------------------------------------------------------------------ C14
\* When the CLI reports that all pages were processed successfully, a file
\* was written for every page 1..N.
C14_SuccessMeansEveryPageWritten ==
    fe = "cli" /\ pc \in {"finish", "done"} /\ all_pages_successful =>
        \A n \in 1..total_pages : \E f \in files : f.name = TwoDigitName(n)

\* ------------------------------------------------------------------ C15
\* In the CLI in consistency mode, the page after one whose image write
\* failed is requested by standard generation, not as an edit.
C15_GenerateAfterFailedSave ==
    /\ fe = "cli"
    /\ consistency
    /\ image_calls # <<>>
    /\ CallsPage >= 2
    /\ (CallsPage - 1) \in write_failures
    => image_calls[1].kind = "generate"

\* ------------------------------------------------------------------ C16
\* In the WebSocket handler every standard generation of a page image is
\* sent a prompt built from the standard style template.
C16_EditTemplateOnlyToEdit ==
    fe = "ws" =>
        \A i \in 1..Len(image_calls) :
            image_calls[i].page >= 1 /\ image_calls[i].kind = "generate" =>
                image_calls[i].prompt = "standard"

\* ------------------------------------------------------------------ C17
IsPrefix(a, b) == Len(a) <= Len(b) /\ \A i \in 1..Len(a) : a[i] = b[i]

WellFormed(h) ==
    \/ h = <<>>
    \/ /\ h[1].role = "system"
       /\ \A i \in 2..Len(h) : h[i].role = IF i % 2 = 0 THEN "user" ELSE "assistant"

\* After the Stage 1 calls for pages 1..n made in order, each with the
\* history the call before returned, the running history is well formed.
C18_HistoryWellFormed ==
    FrontEnd => WellFormed(message_history)

\* ------------------------------------------------------------------ C19
\* The Stage 1 prompt key a request was built from: the content of its
\* system message.
VariantSent(c) == c.sent[1].content

\* For a style of the CLI's table, the Stage 1 prompt either front end sends
\* is the variant the CLI chooses for the style and the variant the
\* WebSocket handler chooses for it.
C19_SameStage1Variant ==
    FrontEnd /\ style \in CliStyleKeys =>
        \A k \in 1..Len(stage1_calls) :
            LET c == stage1_calls[k]
            IN  c.sent # <<>> /\ c.sent[1].role = "system" =>
                    /\ VariantSent(c) = Stage1Keys(CliStyleType(style)).prompt_key
                    /\ VariantSent(c) = Stage1Keys(WsStyleType(style)).prompt_key

\* ------------------------------------------------------------------ C20
FirstChoice == [kind |-> image_calls[1].kind, input |-> image_calls[1].input]

\* In consistency mode, after the same cover and the same page files, the
\* first image request of a page is the one the CLI makes and the one the
\* WebSocket handler makes.
C20_SameFirstStage2Choice ==
    FrontEnd /\ consistency /\ image_calls # <<>> /\ CallsPage >= 1 =>
        /\ FirstChoice = CliChoice(CallsPage)
        /\ FirstChoice = WsChoice(CallsPage)

\* ------------------------------------------------------------------ C21
\* The page loop is over: the loop variable is past the last page.
LoopEnd == page_num = total_pages + 1

\* The handler is over.
WsOver == pc \in {"closed", "exit"}

\* The Stage 1 calls on record are for the pages 1, 2, ... in turn, so no
\* page has two; the image calls on record are one call for the cover, or
\* for a page one call, or an edit that failed and then one generation.
WorkBounded ==
    /\ Len(stage1_calls) <= total_pages
    /\ \A k \in 1..Len(stage1_calls) : stage1_calls[k].page = k
    /\ \A i \in 1..Len(image_calls) : image_calls[i].page = CallsPage
    /\ image_calls # <<>> => CallsPage \in 0..total_pages
    /\ Len(image_calls) <= (IF image_calls # <<>> /\ CallsPage = 0 THEN 1 ELSE 2)
    /\ Len(image_calls) = 2 =>
           /\ image_calls[1].kind = "edit" /\ image_calls[1].failed
           /\ image_calls[2].kind = "generate"

\* Image calls are made by the cover step, once, and by the Stage 2 step of
\* the page in hand; Stage 2 of a page is entered only by the step that
\* makes the page's one Stage 1 call; the loop variable only grows.
WorkStep ==
    /\ page_num' \in {page_num, page_num + 1}
    /\ image_calls' # image_calls /\ image_calls' # <<>> =>
           /\ image_calls = <<>>
           /\ \/ pc = "cover" /\ page_num = 0 /\ image_calls'[1].page = 0
              \/ pc = "stage2" /\ pc' = "save" /\ image_calls'[1].page = page_num
    /\ pc' = "stage2" /\ pc # "stage2" =>
           /\ pc = "stage1" /\ page_num' = page_num
           /\ Len(stage1_calls') = Len(stage1_calls) + 1
           /\ stage1_calls'[Len(stage1_calls')].page = page_num

\* A handler that has not finished can take a step in which nothing raises,
\* but for the page whose scene description makes line 230 raise.
NeverBlocked ==
    pc \notin {"start", "closed", "exit"} /\ ~(pc = "stage2" /\ WsSceneRaises) =>
        ENABLED (WsNext /\ ws'.raised = ws.raised)

\* C21: for a request with N pages the WebSocket handler makes at most one
\* Stage 1 call and at most two image calls (an edit, then a generation
\* after the edit failed) per page and one image call for the cover; when
\* nothing raises it leaves the page loop at its end, and in every case,
\* once the request has arrived, it runs to its end without waiting.
C21_WorkBoundedAndEnds ==
    /\ [](WorkBounded /\ NeverBlocked)
    /\ [][WorkStep]_vars
    /\ [](page_num >= 1 /\ pc \in {"finally", "closed"} /\ ~ws.raised =>
              LoopEnd /\ Stage1Ran)
    /\ (pc # "start") ~> WsOver

\* A run of N = MaxWsPages pages in which an edit failed and the generation
\* after it was made has ended at the end of the loop.
C21_Witness ==
    /\ fe = "ws" /\ pc = "closed" /\ ~ws.raised
    /\ total_pages = MaxWsPages /\ LoopEnd /\ Stage1Ran
    /\ Len(image_calls) = 2

\* The claim as it is worded: once in the page loop the handler always
\* reaches the end of the loop.
C21_AlwaysReachesLoopEnd ==
    (fe = "ws" /\ page_num >= 1) ~> LoopEnd

\* ------------------------------------------------------------------ C22
\* The handler has left its try block.
WsLeft == pc \in {"finally", "closed"}

\* The exception that ended the run came out of the page's own data (line
\* 230), not out of a send.
PageRaised == ws.raised /\ ~ws.disconnected /\ WsSceneRaises

\* At most one terminal message is sent, nothing is sent after it, and
\* "complete" is sent after the last page.
OneTerminalMessage ==
    fe = "ws" =>
        /\ Len(ws.terminal) <= 1
        /\ ~ws.late
        /\ ws.terminal # <<>> => WsLeft
        /\ ws.terminal = <<"complete">> => LoopEnd /\ Stage1Ran

\* C22: on one connection the WebSocket handler sends at most one terminal
\* message (status error or complete) and nothing after it; once the cover
\* step is over, whatever fails in the cover or in a page, and no send
\* raising, no status error is sent and the handler ends with "complete",
\* sent after the last page.
C22_PageFailuresOnlyWarn ==
    /\ OneTerminalMessage
    /\ fe = "ws" /\ page_num >= 1 /\ (~ws.raised \/ PageRaised) =>
           /\ ws.terminal \in {<<>>, <<"complete">>}
           /\ WsLeft => ws.terminal = <<"complete">>

\* ------------------------------------------------------------------ C23
\* The handler is inside its try block.
WsInTry == pc \in {"chars", "mkdir", "cover", "stage1", "stage2", "save", "complete"}

\* close() has been called once when the handler is over after the
\* handshake, and not before; after a failed handshake nothing was sent and
\* nothing is closed.
ClosedAtEnd ==
    /\ ws.closes = (IF pc = "closed" THEN 1 ELSE 0)
    /\ pc = "exit" => ws.raised /\ ws.terminal = <<>> /\ page_num = 0

\* The try block is left only into the finally clause, the finally clause
\* only by the close, and nothing follows the close.
CloseIsLast ==
    /\ pc = "closed" => pc' = "closed" /\ ws' = ws
    /\ pc = "finally" => pc' = "closed" /\ ws'.closes = 1 /\ ws'.terminal = ws.terminal
    /\ WsInTry => WsInTry' \/ pc' = "finally"
    /\ pc = "start" /\ pc' = "exit" => ws'.raised /\ ws'.closes = 0

\* C23: once websocket.accept() has returned, the WebSocket handler calls
\* websocket.close() exactly once, as its last action, on every exit path:
\* after an early error return, after normal completion, after a client
\* disconnect and after an unexpected exception. When accept() itself
\* raises the handler is left without a close.
C23_ClosedOnceAfterAccept ==
    /\ [](fe = "ws" => ClosedAtEnd)
    /\ [][fe = "ws" => CloseIsLast]_vars
    /\ (fe = "ws" /\ pc \notin {"start", "exit"}) ~> (pc = "closed" /\ ws.closes = 1)

\* A client disconnect in the page loop, and the socket closed after it.
C23_Witness ==
    /\ fe = "ws" /\ pc = "closed" /\ ws.closes = 1
    /\ ws.disconnected /\ page_num >= 1 /\ stage1_calls # <<>>

\* The claim as it is worded: however the handler is left, close() has
\* been called exactly once.
C23_ClosedOnEveryExit ==
    fe = "ws" /\ WsOver => ws.closes = 1

====
